---- MODULE Spec2Model ----
(***************************************************************************)
(* State-machine model of sts/entities.py: the fault-injectable switch     *)
(* (FuzzSoftwareSwitch), its receive-handler shim (ShimHandler), the       *)
(* controller-process supervisor (Controller) and the value objects        *)
(* HostInterface and Link.                                                 *)
(***************************************************************************)
EXTENDS Integers, Sequences, FiniteSets, TLC

\* ---------------------------------------------------------------- bounds
NumEndpoints == 2   \* distinct controller endpoint descriptors
MaxInfoLen   == 2   \* longest controller_info list explored
MaxConns     == 4   \* connection objects the engine creates in one run
MaxMsgs      == 1   \* inbound messages dispatched in one run
NumCtrls     == 2   \* Controller objects
MaxProcs     == 3   \* processes spawned in one run
NumIps       == 2   \* distinct IP addresses
MaxIps       == 2   \* longest IP list of a HostInterface
NumSwitches  == 2   \* switches a Link can join
MaxPorts     == 2   \* largest port table of a switch
MaxRevs      == 2   \* reversals applied to one Link

Infos    == 1..NumEndpoints
MsgTypes == {"ofp_header", "ofp_hello"}
None     == 0

\* ------------------------------------------------------------- variables
VARIABLES
  optimize,         \* interpreter started with -O: assert statements are stripped
  engine_handlers,  \* keys of the handler table NXSoftwareSwitch.__init__ built
  constructed,      \* "new" | "ok" | "TypeError": outcome of FuzzSoftwareSwitch.__init__
  ofp_handlers,     \* keys of self.ofp_handlers that hold a ShimHandler
  failed,           \* self.failed
  controller_info,  \* self.controller_info
  connections,      \* self.connections (the engine's connection list)
  uuid2connection,  \* self.uuid2connection : peer address -> connection
  closed,           \* connections on which close() has been called
  nextConn,         \* number of connection objects created so far
  handled,          \* state the original receive handlers mutate: messages processed
  trace,            \* what the last operation did, in order: handler run, wire send, close, event
  err,              \* exception the last operation raised, or "none"
  lastOp,           \* the last operation called on the switch
  pre,              \* the switch's fields right before the last operation
  prevOp,           \* the operation called before the last one
  prePrev,          \* the switch's fields right before prevOp
  ctl,              \* Controller objects: exists, alive, process
  status,           \* every spawned process: "unspawned" | "running" | "exit0" | "exit1" | "signalled"
  active,           \* Controller._active_processes
  nextPid,          \* number of processes spawned so far
  cerr,             \* exception the last Controller operation raised, or "none"
  clast,            \* the last Controller operation and the state right before it
  ifA, ifB,         \* two HostInterface objects
  compared,         \* the two have been compared and hashed
  eqAB, eqBA,       \* ifA == ifB and ifB == ifA, once compared
  hashA, hashB,     \* hash(ifA) and hash(ifB), once compared
  nports,           \* the size of every switch's port table (ports 1..n)
  link,             \* the Link at hand, or NoLink
  largs,            \* the arguments of the last Link(...) call
  lerr,             \* exception the last Link operation raised, or "none"
  orig,             \* the Link as it was constructed
  revs              \* reversed_link() calls applied to it since

swVars   == <<optimize, engine_handlers, constructed, ofp_handlers, failed,
              controller_info, connections, uuid2connection, closed, nextConn,
              handled, trace, err, lastOp, pre, prevOp, prePrev>>
ctlVars  == <<ctl, status, active, nextPid, cerr, clast>>
ifVars   == <<ifA, ifB, compared, eqAB, eqBA, hashA, hashB>>
linkVars == <<nports, link, largs, lerr, orig, revs>>
vars     == <<swVars, ctlVars, ifVars, linkVars>>

\* --------------------------------------------------------------- helpers
Range(s)  == {s[i] : i \in 1..Len(s)}
EmptyMap  == [k \in {} |-> None]
Keys(m)   == DOMAIN m
Values(m) == {m[k] : k \in DOMAIN m}

\* io_worker.socket.getpeername(): the (ip, port) of the endpoint the factory
\* connected to; endpoint i listens on port 6632 + i.
getpeername(info) == 6632 + info

PeersOf(infos) == {getpeername(infos[i]) : i \in 1..Len(infos)}

\* The switch's fields, as one record (for the before/after comparisons).
SwitchState ==
  [failed |-> failed, controller_info |-> controller_info,
   connections |-> connections, uuid2connection |-> uuid2connection,
   closed |-> closed]

Step(k, m, cs, seen) == [k |-> k, msg |-> m, conns |-> cs, seen |-> seen]

NoState == [failed |-> FALSE, controller_info |-> <<>>, connections |-> <<>>,
            uuid2connection |-> EmptyMap, closed |-> {}]
NoOp    == [op |-> "none", arg |-> 0]

\* Bookkeeping every switch operation does in the model: remember the call.
Called(op, arg) ==
  /\ lastOp'  = [op |-> op, arg |-> arg]
  /\ pre'     = SwitchState
  /\ prevOp'  = lastOp
  /\ prePrev' = pre
  /\ UNCHANGED <<ctlVars, ifVars, linkVars>>

\* Bookkeeping of a message operation: it is remembered as the last call, and
\* the fail/recover history before it is dropped.
Dispatched(op, arg) ==
  /\ lastOp'  = [op |-> op, arg |-> arg]
  /\ pre'     = NoState
  /\ prevOp'  = NoOp
  /\ prePrev' = NoState
  /\ UNCHANGED <<ctlVars, ifVars, linkVars>>

\* ------------------------------------------------------------------ Init
InitSwitch ==
  /\ optimize \in BOOLEAN
  /\ engine_handlers \in SUBSET MsgTypes
  /\ constructed = "new"
  /\ ofp_handlers = {}
  /\ failed = FALSE
  /\ controller_info = <<>>
  /\ connections = <<>>
  /\ uuid2connection = EmptyMap
  /\ closed = {}
  /\ nextConn = 0
  /\ handled = 0
  /\ trace = <<>>
  /\ err = "none"
  /\ lastOp = NoOp
  /\ pre = NoState
  /\ prevOp = NoOp
  /\ prePrev = NoState

\* ------------------------------------------------- FuzzSoftwareSwitch ops

\* FuzzSoftwareSwitch.__init__: wraps every engine handler as ShimHandler(handler).
\* ShimHandler.__init__ takes (original_handler, parent_switch), so the
\* one-argument call raises TypeError as soon as the table has one entry.
Construct ==
  /\ constructed = "new"
  /\ IF engine_handlers = {}
       THEN /\ constructed' = "ok"
            /\ err' = "none"
       ELSE /\ constructed' = "TypeError"
            /\ err' = "TypeError"
  /\ ofp_handlers' = {}
  /\ failed' = FALSE
  /\ uuid2connection' = EmptyMap
  /\ controller_info' = <<>>
  /\ trace' = <<>>
  /\ Called("__init__", 0)
  /\ UNCHANGED <<optimize, engine_handlers, connections, closed, nextConn, handled>>

add_controller_info(info) ==
  /\ constructed = "ok"
  /\ Len(controller_info) < MaxInfoLen
  /\ controller_info' = Append(controller_info, info)
  /\ trace' = <<>>
  /\ err' = "none"
  /\ Called("add_controller_info", info)
  /\ UNCHANGED <<optimize, engine_handlers, constructed, ofp_handlers, failed,
                 connections, uuid2connection, closed, nextConn, handled>>

\* NXSoftwareSwitch.set_io_worker: the engine wraps the io_worker in a new
\* connection object, keeps it in self.connections and returns it.
set_io_worker(conns, conn) == Append(conns, conn)

\* The loop of connect(): the factory raises at entry failAt of
\* controller_info (0: it never raises); the entries before it are connected.
ConnectLoop(failAt) ==
  LET n     == IF failAt = 0 THEN Len(controller_info) ELSE failAt - 1
      peer(i) == getpeername(controller_info[i])
      conn(i) == nextConn + i
      hit(k)  == {i \in 1..n : peer(i) = k}
      last(k) == CHOOSE i \in hit(k) : \A j \in hit(k) : j <= i
      RECURSIVE appended(_)
      appended(i) == IF i = 0 THEN connections
                     ELSE set_io_worker(appended(i - 1), conn(i))
  IN  /\ nextConn + n <= MaxConns
      /\ connections' = appended(n)
      /\ uuid2connection' =
           [k \in Keys(uuid2connection) \cup {peer(i) : i \in 1..n} |->
              IF hit(k) # {} THEN conn(last(k)) ELSE uuid2connection[k]]
      /\ nextConn' = nextConn + n
      /\ err' = IF failAt = 0 THEN "none" ELSE "IOError"

\* The calls connect() makes to the injected factory self.create_io_worker:
\* one per entry of controller_info, up to the one that raises.
FactoryCalls(failAt) ==
  LET calls == IF failAt = 0 THEN Len(controller_info) ELSE failAt
  IN  [i \in 1..calls |-> Step("factory", "", <<>>, controller_info[i])]

\* FuzzSoftwareSwitch.connect
connect(failAt) ==
  /\ constructed = "ok"
  /\ ConnectLoop(failAt)
  /\ trace' = FactoryCalls(failAt)
  /\ Called("connect", failAt)
  /\ UNCHANGED <<optimize, engine_handlers, constructed, ofp_handlers, failed,
                 controller_info, closed, handled>>

\* FuzzSoftwareSwitch.fail
fail ==
  /\ constructed = "ok"
  /\ IF failed
       THEN /\ err' = "none"
            /\ trace' = <<>>
            /\ UNCHANGED <<failed, connections, closed>>
       ELSE /\ failed' = TRUE
            /\ trace' = [i \in 1..Len(connections) |->
                           Step("close", "", <<connections[i]>>, 0)]
            /\ closed' = closed \cup Range(connections)
            /\ connections' = <<>>
            /\ err' = "none"
  /\ Called("fail", 0)
  /\ UNCHANGED <<optimize, engine_handlers, constructed, ofp_handlers,
                 controller_info, uuid2connection, nextConn, handled>>

recover_noconnect(failAt) ==
  /\ constructed = "ok"
  /\ failAt = 0
  /\ err' = "none"
  /\ failed' = FALSE
  /\ trace' = <<>>
  /\ Called("recover", failAt)
  /\ UNCHANGED <<optimize, engine_handlers, constructed, ofp_handlers,
                 controller_info, connections, uuid2connection, nextConn,
                 closed, handled>>

recover_unguarded(failAt) ==
  /\ constructed = "ok"
  /\ ConnectLoop(failAt)
  /\ trace' = FactoryCalls(failAt)
  /\ failed' = IF failAt # 0 THEN failed ELSE FALSE
  /\ Called("recover", failAt)
  /\ UNCHANGED <<optimize, engine_handlers, constructed, ofp_handlers,
                 controller_info, closed, handled>>

recover_clears_first(failAt) ==
  /\ constructed = "ok"
  /\ IF ~failed
       THEN /\ failAt = 0
            /\ err' = "none"
            /\ trace' = <<>>
            /\ UNCHANGED <<failed, connections, uuid2connection, nextConn>>
       ELSE /\ failed' = FALSE
            /\ ConnectLoop(failAt)
            /\ trace' = FactoryCalls(failAt)
  /\ Called("recover", failAt)
  /\ UNCHANGED <<optimize, engine_handlers, constructed, ofp_handlers,
                 controller_info, closed, handled>>

\* FuzzSoftwareSwitch.recover
recover(failAt) ==
  /\ constructed = "ok"
  /\ IF ~failed
       THEN /\ failAt = 0
            /\ err' = "none"
            /\ trace' = <<>>
            /\ UNCHANGED <<failed, connections, uuid2connection, nextConn>>
       ELSE /\ ConnectLoop(failAt)
            /\ trace' = FactoryCalls(failAt)
            /\ failed' = (failAt # 0)
  /\ Called("recover", failAt)
  /\ UNCHANGED <<optimize, engine_handlers, constructed, ofp_handlers,
                 controller_info, closed, handled>>

\* Peer addresses a caller may ask for: those of the endpoints, and one that
\* belongs to no endpoint.
Uuids == {getpeername(i) : i \in 0..NumEndpoints}

\* FuzzSoftwareSwitch.get_connection
get_connection(uuid) ==
  /\ constructed = "ok"
  /\ IF uuid \in Keys(uuid2connection)
       THEN /\ trace' = <<Step("return", "", <<uuid2connection[uuid]>>, 0)>>
            /\ err' = "none"
       ELSE /\ trace' = <<>>
            /\ err' = "ValueError"
  /\ Called("get_connection", uuid)
  /\ UNCHANGED <<optimize, engine_handlers, constructed, ofp_handlers, failed,
                 controller_info, connections, uuid2connection, closed,
                 nextConn, handled>>

\* The engine's send (NXSoftwareSwitch.send): puts the message on the wire of
\* the connections it picks and returns them, or raises.
EngineSendOutcomes ==
  [raises : {FALSE}, used : SUBSET Range(connections)] \cup
  [raises : {TRUE}, used : {{}}]

send_event_first(message, out) ==
  /\ constructed = "ok"
  /\ IF out.raises
       THEN /\ trace' = <<Step("event", message, out.used, handled)>>
            /\ err' = "SendError"
       ELSE /\ trace' = <<Step("event", message, out.used, handled),
                          Step("wire", message, out.used, handled)>>
            /\ err' = "none"
  /\ Dispatched("send", 0)
  /\ UNCHANGED <<optimize, engine_handlers, constructed, ofp_handlers, failed,
                 controller_info, connections, uuid2connection, closed,
                 nextConn, handled>>

\* FuzzSoftwareSwitch.send
send(message, out) ==
  /\ constructed = "ok"
  /\ IF out.raises
       THEN /\ trace' = <<>>
            /\ err' = "SendError"
       ELSE /\ trace' = <<Step("wire", message, out.used, handled),
                          Step("event", message, out.used, handled)>>
            /\ err' = "none"
  /\ Dispatched("send", 0)
  /\ UNCHANGED <<optimize, engine_handlers, constructed, ofp_handlers, failed,
                 controller_info, connections, uuid2connection, closed,
                 nextConn, handled>>

\* ShimHandler.__call__(conn, msg) of a ShimHandler(original_handler, switch):
\* the original handler runs and mutates its state, then the two asserts are
\* evaluated (conn is a ControllerConnection; type(msg) == ofp_header is an
\* exact-class test that only a bare ofp_header passes), then the event is
\* raised on the parent switch.
ShimCall(conn, m) ==
  /\ constructed = "ok"
  /\ handled < MaxMsgs
  /\ handled' = handled + 1
  /\ IF ~optimize /\ m # "ofp_header"
       THEN /\ trace' = <<Step("handler", m, <<conn>>, handled + 1)>>
            /\ err' = "AssertionError"
       ELSE /\ trace' = <<Step("handler", m, <<conn>>, handled + 1),
                          Step("event", m, <<conn>>, handled + 1)>>
            /\ err' = "none"
  /\ Dispatched("shim", conn)
  /\ UNCHANGED <<optimize, engine_handlers, constructed, ofp_handlers, failed,
                 controller_info, connections, uuid2connection, closed, nextConn>>

\* Failure injection: construction, registration, connect, fail, recover.
SwitchNext ==
  \/ Construct
  \/ \E info \in Infos : add_controller_info(info)
  \/ \E failAt \in 0..Len(controller_info) : connect(failAt)
  \/ fail
  \/ \E failAt \in 0..Len(controller_info) : recover(failAt)
  \/ \E uuid \in Uuids : get_connection(uuid)

\* Message interception: outbound sends and inbound dispatch on a switch that
\* registers endpoints and connects.
MsgNext ==
  \/ Construct
  \/ \E info \in Infos : add_controller_info(info)
  \/ \E failAt \in 0..Len(controller_info) : connect(failAt)
  \/ \E m \in MsgTypes : \E out \in EngineSendOutcomes : send(m, out)
  \/ \E conn \in 1..nextConn : \E m \in MsgTypes : ShimCall(conn, m)

\* ------------------------------------------------------------ Controller
Ctrls == 1..NumCtrls
Pids  == 1..MaxProcs

Gone == [exists |-> FALSE, alive |-> FALSE, process |-> None]

\* The supervisor's state as one value: the operations below map it to the
\* state they leave.
CtlState == [ctl |-> ctl, status |-> status, active |-> active, nextPid |-> nextPid]

InitCtl ==
  /\ ctl = [c \in Ctrls |-> Gone]
  /\ status = [p \in Pids |-> "unspawned"]
  /\ active = {}
  /\ nextPid = 0
  /\ cerr = "none"
  /\ clast = [op |-> "none", c |-> 0, before |-> CtlState]

\* Popen.poll(): None while the process runs, else its return code
\* (negative when a signal ended it).
poll(st, p) ==
  CASE st.status[p] = "running"   -> None
    [] st.status[p] = "exit0"     -> 0
    [] st.status[p] = "exit1"     -> 1
    [] st.status[p] = "signalled" -> -15
Truthy(v) == v # None /\ v # 0

\* sts.procutils.kill_procs: terminates every process of the collection,
\* skipping None entries and tolerating processes that have already exited;
\* it does not touch the collection it is given.
kill_procs(st, procs) ==
  [st EXCEPT !.status = [p \in Pids |->
     IF p \in procs /\ st.status[p] = "running" THEN "signalled" ELSE st.status[p]]]

\* Controller._register_proc
register_proc(st, proc) == [st EXCEPT !.active = st.active \cup {proc}]

\* Controller._unregister_proc
unregister_proc(st, proc) == [st EXCEPT !.active = st.active \ {proc}]

\* Controller.kill_active_procs
kill_active_procs(st) == kill_procs(st, st.active)

kill_no_unregister(st, c) ==
  LET s1 == kill_procs(st, {st.ctl[c].process})
  IN  [s1 EXCEPT !.ctl[c].alive = FALSE, !.ctl[c].process = None]

kill_keeps_handle(st, c) ==
  LET s1 == kill_procs(st, {st.ctl[c].process})
      s2 == unregister_proc(s1, st.ctl[c].process)
  IN  [s2 EXCEPT !.ctl[c].alive = FALSE]

\* Controller.kill
kill(st, c) ==
  LET s1 == kill_procs(st, {st.ctl[c].process})
      s2 == unregister_proc(s1, st.ctl[c].process)
  IN  [s2 EXCEPT !.ctl[c].alive = FALSE, !.ctl[c].process = None]

start_no_register(st, c) ==
  LET p  == st.nextPid + 1
      s1 == [st EXCEPT !.nextPid = p, !.status[p] = "running", !.ctl[c].process = p]
  IN  [s1 EXCEPT !.ctl[c].alive = TRUE]

\* Controller.start: popen_filtered spawns a new process.
start(st, c) ==
  LET p  == st.nextPid + 1
      s1 == [st EXCEPT !.nextPid = p, !.status[p] = "running", !.ctl[c].process = p]
      s2 == register_proc(s1, p)
  IN  [s2 EXCEPT !.ctl[c].alive = TRUE]

restart_no_kill(st, c) == start(st, c)

\* Controller.restart
restart(st, c) == start(kill(st, c), c)

del_inverted(st, c) ==
  LET proc == st.ctl[c].process
      s1 == IF proc # None
              THEN IF ~Truthy(poll(st, proc))
                     THEN unregister_proc(st, proc)
                     ELSE kill(st, c)
              ELSE st
  IN  [s1 EXCEPT !.ctl[c] = Gone]

\* Controller.__del__, after which the object is gone.
del(st, c) ==
  LET proc == st.ctl[c].process
      s1 == IF proc # None
              THEN IF Truthy(poll(st, proc))
                     THEN unregister_proc(st, proc)
                     ELSE kill(st, c)
              ELSE st
  IN  [s1 EXCEPT !.ctl[c] = Gone]

\* Popen.pid: the operating system's id of spawned process p.
OsPid(p) == 4000 + p

\* Controller.pid
pid(st, c) == IF st.ctl[c].process # None THEN OsPid(st.ctl[c].process) ELSE None

\* Controller.__init__
init(st, c) == [st EXCEPT !.ctl[c] = [exists |-> TRUE, alive |-> FALSE, process |-> None]]

\* A controller program ends by itself with return code 0 or 1.
exits(st, p, code) == [st EXCEPT !.status[p] = IF code = 0 THEN "exit0" ELSE "exit1"]

Becomes(st, op, c) ==
  /\ ctl' = st.ctl
  /\ status' = st.status
  /\ active' = st.active
  /\ nextPid' = st.nextPid
  /\ cerr' = "none"
  /\ clast' = [op |-> op, c |-> c, before |-> CtlState]
  /\ UNCHANGED <<swVars, ifVars, linkVars>>

New(c) ==
  /\ ~ctl[c].exists
  /\ Becomes(init(CtlState, c), "__init__", c)

Start(c) ==
  /\ ctl[c].exists
  /\ nextPid < MaxProcs
  /\ Becomes(start(CtlState, c), "start", c)

Kill(c) ==
  /\ ctl[c].exists
  /\ Becomes(kill(CtlState, c), "kill", c)

Restart(c) ==
  /\ ctl[c].exists
  /\ nextPid < MaxProcs
  /\ Becomes(restart(CtlState, c), "restart", c)

KillActiveProcs ==
  Becomes(kill_active_procs(CtlState), "kill_active_procs", 0)

Del(c) ==
  /\ ctl[c].exists
  /\ Becomes(del(CtlState, c), "__del__", c)

ProcExit(p, code) ==
  /\ status[p] = "running"
  /\ Becomes(exits(CtlState, p, code), "exit", 0)

CtlNext ==
  \/ \E c \in Ctrls : New(c)
  \/ \E c \in Ctrls : Start(c)
  \/ \E c \in Ctrls : Kill(c)
  \/ \E c \in Ctrls : Restart(c)
  \/ KillActiveProcs
  \/ \E c \in Ctrls : Del(c)
  \/ \E p \in Pids : \E code \in {0, 1} : ProcExit(p, code)

\* --------------------------------------------------------- HostInterface
IpAddrs == 1..NumIps
HwAddrs == {1, 2}
Names   == {"eth0", "eth1"}

\* IPAddr.toUnsignedN(): address 10.0.0.i as an unsigned in network byte order.
toUnsignedN(ip) == ip * 16777216 + 10

\* EthAddr.toInt(): address 00:00:00:00:01:hw as an integer.
toInt(hw) == 256 + hw

\* str.__hash__ of the interface names.
NameHash(name) == IF name = "eth0" THEN 7000 ELSE 7001

IpLists == UNION {[1..n -> IpAddrs] : n \in 0..MaxIps}

\* HostInterface.__init__ with a list of IPs.
HostInterface(hw_addr, ips, name) == [hw_addr |-> hw_addr, ips |-> ips, name |-> name]

HostInterfaces == {HostInterface(h, l, n) : h \in HwAddrs, l \in IpLists, n \in Names}

\* HostInterface.__eq__
HostInterface_eq(self, other) ==
  LET other_ip_ints == {toUnsignedN(other.ips[j]) : j \in 1..Len(other.ips)}
  IN  IF toInt(self.hw_addr) # toInt(other.hw_addr) THEN FALSE
      ELSE IF \E i \in 1..Len(self.ips) : toUnsignedN(self.ips[i]) \notin other_ip_ints
        THEN FALSE
      ELSE IF Len(other.ips) # Len(self.ips) THEN FALSE
      ELSE IF self.name # other.name THEN FALSE
      ELSE TRUE

\* HostInterface.__hash__
HostInterface_hash(self) ==
  LET RECURSIVE sum(_)
      sum(i) == IF i = 0 THEN toInt(self.hw_addr)
                ELSE sum(i - 1) + toUnsignedN(self.ips[i])
  IN  sum(Len(self.ips)) + NameHash(self.name)

\* HostInterface(hw) with the default arguments.
DefaultInterface == HostInterface(1, <<>>, "eth0")

InitIfIdle ==
  /\ ifA = DefaultInterface
  /\ ifB = DefaultInterface
  /\ compared = FALSE
  /\ eqAB = FALSE
  /\ eqBA = FALSE
  /\ hashA = 0
  /\ hashB = 0

InitIf ==
  /\ ifA \in HostInterfaces
  /\ ifB \in HostInterfaces
  /\ compared = FALSE
  /\ eqAB = FALSE
  /\ eqBA = FALSE
  /\ hashA = 0
  /\ hashB = 0

\* The two interfaces are compared both ways and hashed.
CompareInterfaces ==
  /\ ~compared
  /\ compared' = TRUE
  /\ eqAB' = HostInterface_eq(ifA, ifB)
  /\ eqBA' = HostInterface_eq(ifB, ifA)
  /\ hashA' = HostInterface_hash(ifA)
  /\ hashB' = HostInterface_hash(ifB)
  /\ UNCHANGED <<ifA, ifB, swVars, ctlVars, linkVars>>

IfNext == CompareInterfaces

\* ------------------------------------------------------------------ Link
Switches == 1..NumSwitches

\* software_switch.ports: port number -> ofp_phy_port, for ports 1..nports.
PortNumbers(sw) == 1..nports[sw]
PortOf(sw, no)  == [kind |-> "ofp_phy_port", port_no |-> no, hw_addr |-> 16 * sw + no]

\* What a caller passes as start_port / end_port: a port number or a port.
IntArg(no) == [kind |-> "int", port_no |-> no, hw_addr |-> 0]
PortArgs ==
  {IntArg(no) : no \in 1..MaxPorts} \cup
  {PortOf(sw, no) : sw \in Switches, no \in 1..MaxPorts}

NoPort == [kind |-> "none", port_no |-> 0, hw_addr |-> 0]
NoLink == [start_software_switch |-> 0, start_port |-> NoPort,
           end_software_switch |-> 0, end_port |-> NoPort]
NoArgs == [ssw |-> 0, sp |-> NoPort, esw |-> 0, ep |-> NoPort]

\* Link.__init__: the outcome of Link(ssw, sp, esw, ep), an exception name
\* and the fields of the object built.
Link(ssw, sp, esw, ep) ==
  LET built(p1, p2) ==
        [err |-> "none",
         link |-> [start_software_switch |-> ssw, start_port |-> p1,
                   end_software_switch |-> esw, end_port |-> p2]]
      raised(e) == [err |-> e, link |-> NoLink]
      second(p1) ==
        IF ep.kind = "int"
          THEN IF ~optimize /\ ep.port_no \notin PortNumbers(ssw)
                 THEN raised("AssertionError")
               ELSE IF ep.port_no \notin PortNumbers(esw)
                 THEN raised("KeyError")
               ELSE built(p1, PortOf(esw, ep.port_no))
          ELSE built(p1, ep)
  IN  IF sp.kind = "int"
        THEN IF ~optimize /\ sp.port_no \notin PortNumbers(ssw)
               THEN raised("AssertionError")
             ELSE IF sp.port_no \notin PortNumbers(ssw)
               THEN raised("KeyError")
             ELSE second(PortOf(ssw, sp.port_no))
        ELSE second(sp)

\* Link.__eq__
Link_eq(self, other) ==
  /\ self.start_software_switch = other.start_software_switch
  /\ self.start_port = other.start_port
  /\ self.end_software_switch = other.end_software_switch
  /\ self.end_port = other.end_port

reversed_link_same_port(self) ==
  Link(self.end_software_switch, self.end_port,
       self.start_software_switch, self.end_port)

\* Link.reversed_link
reversed_link(self) ==
  Link(self.end_software_switch, self.end_port,
       self.start_software_switch, self.start_port)

InitLinkIdle ==
  /\ nports = [sw \in Switches |-> 1]
  /\ link = NoLink
  /\ largs = NoArgs
  /\ lerr = "none"
  /\ orig = NoLink
  /\ revs = 0

InitLink ==
  /\ nports \in [Switches -> 1..MaxPorts]
  /\ link = NoLink
  /\ largs = NoArgs
  /\ lerr = "none"
  /\ orig = NoLink
  /\ revs = 0

\* link = Link(ssw, sp, esw, ep), the one Link a run builds from its inputs.
NewLink(ssw, sp, esw, ep) ==
  /\ largs = NoArgs
  /\ sp.kind = "ofp_phy_port" => sp.port_no \in PortNumbers(sp.hw_addr \div 16)
  /\ ep.kind = "ofp_phy_port" => ep.port_no \in PortNumbers(ep.hw_addr \div 16)
  /\ LET out == Link(ssw, sp, esw, ep)
     IN  /\ link' = out.link
         /\ orig' = out.link
         /\ lerr' = out.err
  /\ largs' = [ssw |-> ssw, sp |-> sp, esw |-> esw, ep |-> ep]
  /\ revs' = 0
  /\ UNCHANGED <<nports, swVars, ctlVars, ifVars>>

\* link = link.reversed_link()
Reverse ==
  /\ link # NoLink
  /\ revs < MaxRevs
  /\ LET out == reversed_link(link)
     IN  /\ link' = out.link
         /\ lerr' = out.err
  /\ revs' = revs + 1
  /\ UNCHANGED <<nports, largs, orig, swVars, ctlVars, ifVars>>

LinkNext ==
  \/ \E ssw \in Switches, esw \in Switches :
       \E sp \in PortArgs, ep \in PortArgs : NewLink(ssw, sp, esw, ep)
  \/ Reverse

\* -------------------------------------------------------- specifications
Init == InitSwitch /\ InitCtl /\ InitIfIdle /\ InitLinkIdle

\* The supervisor alone, next to a switch that is never constructed.
InitCtlOnly == Init /\ ~optimize /\ engine_handlers = {}

\* Two HostInterfaces drawn from the bounded inputs.
InitIfOnly ==
  InitSwitch /\ ~optimize /\ engine_handlers = {} /\ InitCtl /\ InitIf /\ InitLinkIdle

\* Switches with port tables of any size, with asserts on or stripped.
InitLinkOnly ==
  InitSwitch /\ engine_handlers = {} /\ InitCtl /\ InitIfIdle /\ InitLink

SwitchSpec == Init /\ [][SwitchNext]_vars
MsgSpec    == Init /\ [][MsgNext]_vars
CtlSpec    == InitCtlOnly /\ [][CtlNext]_vars
IfSpec     == InitIfOnly /\ [][IfNext]_vars
LinkSpec   == InitLinkOnly /\ [][LinkNext]_vars

\* ---------------------------------------------------------------- claims

\* C1: in every reachable state of the switch, failed = TRUE implies that the
\* peer-address-to-connection mapping uuid2connection is empty.
C1_FailedImpliesEmptyMapping ==
  failed => Keys(uuid2connection) = {}

\* C2: a fail() that directly follows a fail() changes nothing: the switch's
\* fields are those the first call left (failed, no connections), the second
\* call closes no connection and raises no error.
C2_FailTwiceIsFailOnce ==
  (lastOp.op = "fail" /\ prevOp.op = "fail") =>
     /\ SwitchState = pre
     /\ failed
     /\ connections = <<>>
     /\ \A i \in 1..Len(trace) : trace[i].k # "close"
     /\ err = "none"

\* The second of two fail() calls, where the first one closed connections.
C2_Witness ==
  /\ lastOp.op = "fail"
  /\ prevOp.op = "fail"
  /\ ~prePrev.failed
  /\ prePrev.connections # <<>>
  /\ Range(prePrev.connections) \subseteq closed

\* A switch is connected when every registered endpoint has its entry in the
\* connection mapping (connect() succeeded after the last registration).
Connected(s) ==
  /\ s.controller_info # <<>>
  /\ Keys(s.uuid2connection) = PeersOf(s.controller_info)

\* C3: on a connected switch that is not failed, fail() directly followed by
\* a recover() whose connects succeed ends with failed = FALSE and a mapping
\* with the key set it had before fail(), every key mapped to a connection
\* that is not closed; with one registered endpoint the mapping has one entry.
C3_FailRecoverRestoresKeys ==
  (/\ prevOp.op = "fail"
   /\ lastOp.op = "recover"
   /\ err = "none"
   /\ ~prePrev.failed
   /\ Connected(prePrev)) =>
     /\ ~failed
     /\ Keys(uuid2connection) = Keys(prePrev.uuid2connection)
     /\ \A k \in Keys(uuid2connection) :
          /\ uuid2connection[k] \notin closed
          /\ uuid2connection[k] \in Range(connections)
     /\ (Len(controller_info) = 1 => Cardinality(Keys(uuid2connection)) = 1)

\* fail() then recover() on a switch connected to two endpoints.
C3_Witness ==
  /\ prevOp.op = "fail"
  /\ lastOp.op = "recover"
  /\ err = "none"
  /\ ~prePrev.failed
  /\ Connected(prePrev)
  /\ Cardinality(Keys(prePrev.uuid2connection)) = 2
  /\ ~failed

\* C4: a successful connect() replaces the prior connection state: the
\* switch's connections and mapping entries are exactly those the call
\* opened, so there are never more connections than registered endpoints.
C4_ConnectReplacesState ==
  (lastOp.op = "connect" /\ err = "none") =>
     LET opened == (nextConn - Len(controller_info) + 1)..nextConn
     IN  /\ Range(connections) = opened
         /\ Values(uuid2connection) \subseteq opened
         /\ Len(connections) <= Len(controller_info)

\* C5: every message dispatched through a wrapped handler publishes exactly
\* one CpMessageEvent ([conn], msg), after the original handler has run and
\* with its side effect visible; and a constructed switch has every handler
\* of the engine's table wrapped.
C5_ShimEventAfterHandler ==
  /\ lastOp.op = "shim" =>
       /\ Len(trace) = 2
       /\ trace[1].k = "handler"
       /\ trace[2] = Step("event", trace[1].msg, <<lastOp.arg>>, handled)
  /\ constructed # "new" =>
       /\ constructed = "ok"
       /\ ofp_handlers = engine_handlers

\* C6: send() publishes the CpMessageEvent after the engine's send returned,
\* tagged with the connections that send returned; when the engine's send
\* raises, no event is published.
C6_SendEventAfterWire ==
  lastOp.op = "send" =>
     IF err = "none"
       THEN /\ Len(trace) = 2
            /\ trace[1].k = "wire"
            /\ trace[2].k = "event"
            /\ trace[2].conns = trace[1].conns
            /\ trace[2].msg = trace[1].msg
       ELSE \A i \in 1..Len(trace) : trace[i].k # "event"

\* A send that went out on a connection and was then announced.
C6_Witness ==
  /\ lastOp.op = "send"
  /\ err = "none"
  /\ Len(trace) = 2
  /\ trace[1].k = "wire"
  /\ trace[1].conns # {}
  /\ trace[2].k = "event"

\* C7: after kill_active_procs() every process that was in the live-set is
\* terminated and no longer in the live-set.
C7_BulkKillEmptiesLiveSet ==
  clast.op = "kill_active_procs" =>
     \A p \in clast.before.active :
        /\ status[p] # "running"
        /\ p \notin active

\* A controller is stopped when it holds no process or one that has ended.
Stopped(st, c) ==
  \/ st.ctl[c].process = None
  \/ st.status[st.ctl[c].process] # "running"

\* C8: kill() on a controller that is already stopped raises no error and
\* leaves alive = FALSE, no process handle, and the live-set without the
\* process the controller held.
C8_KillIdempotent ==
  (clast.op = "kill" /\ Stopped(clast.before, clast.c)) =>
     /\ cerr = "none"
     /\ ~ctl[clast.c].alive
     /\ ctl[clast.c].process = None
     /\ clast.before.ctl[clast.c].process \notin active
     /\ status = clast.before.status

\* kill() on a controller that an earlier kill() had already stopped.
C8_Witness ==
  /\ clast.op = "kill"
  /\ ~clast.before.ctl[clast.c].alive
  /\ clast.before.ctl[clast.c].process = None
  /\ \E p \in Pids : status[p] = "signalled" /\ p \notin active

\* C9: start() on a controller that is alive is rejected with an error and
\* leaves its process handle, alive flag and the live-set unchanged; no
\* second process is spawned.
C9_StartRunningRejected ==
  (clast.op = "start" /\ clast.before.ctl[clast.c].alive) =>
     /\ cerr # "none"
     /\ ctl[clast.c] = clast.before.ctl[clast.c]
     /\ active = clast.before.active
     /\ nextPid = clast.before.nextPid

\* C10: every spawned process that is still running is in the live-set.
C10_RunningIsTracked ==
  \A p \in Pids : status[p] = "running" => p \in active

\* A running process no Controller holds a handle to any more.
C10_Witness ==
  \E p \in Pids :
     /\ status[p] = "running"
     /\ p \in active
     /\ \A c \in Ctrls : ctl[c].process # p

\* C11: at every operation boundary of a Controller, pid is null whenever
\* alive is false, and alive is true exactly when the controller holds a
\* process handle.
C11_PidNullUnlessAlive ==
  \A c \in Ctrls : ctl[c].exists =>
     /\ (~ctl[c].alive => pid(CtlState, c) = None)
     /\ (ctl[c].alive <=> ctl[c].process # None)

\* A controller that was running and has been killed.
C11_Witness ==
  /\ clast.op = "kill"
  /\ clast.before.ctl[clast.c].alive
  /\ clast.before.ctl[clast.c].process # None
  /\ ~ctl[clast.c].alive
  /\ \E d \in Ctrls : ctl[d].alive /\ pid(CtlState, d) # None

\* C12: restart() from RUNNING or STOPPED ends in RUNNING: alive is true, the
\* controller holds a freshly spawned running process that is in the live-set,
\* and the process it held before is terminated and out of the live-set.
C12_RestartEndsRunning ==
  clast.op = "restart" =>
     LET c   == clast.c
         old == clast.before.ctl[c].process
         new == ctl[c].process
     IN  /\ ctl[c].alive
         /\ new # None
         /\ clast.before.status[new] = "unspawned"
         /\ status[new] = "running"
         /\ new \in active
         /\ (old # None => status[old] # "running" /\ old \notin active)

\* restart() of a controller whose process was running.
C12_Witness ==
  /\ clast.op = "restart"
  /\ clast.before.ctl[clast.c].alive
  /\ clast.before.ctl[clast.c].process # None
  /\ clast.before.status[clast.before.ctl[clast.c].process] = "running"
  /\ status[clast.before.ctl[clast.c].process] = "signalled"

\* C19: when a Controller that holds a process handle is discarded, the
\* process is afterwards not running and not in the live-set, whether it was
\* running, had exited with a non-zero code or had exited with code 0.
C19_DiscardReapsProcess ==
  (clast.op = "__del__" /\ clast.before.ctl[clast.c].process # None) =>
     LET p == clast.before.ctl[clast.c].process
     IN  /\ status[p] # "running"
         /\ p \notin active
         /\ ~ctl[clast.c].exists

\* A Controller discarded while its process was still running.
C19_Witness ==
  /\ clast.op = "__del__"
  /\ clast.before.ctl[clast.c].process # None
  /\ clast.before.status[clast.before.ctl[clast.c].process] = "running"
  /\ clast.before.ctl[clast.c].process \in clast.before.active

\* C13: get_connection(peer) returns the mapped connection when peer is a key
\* of the mapping and otherwise raises without changing the switch; it never
\* returns null and never returns a connection that fail() has closed.
C13_GetConnection ==
  lastOp.op = "get_connection" =>
     /\ SwitchState = pre
     /\ IF lastOp.arg \in Keys(pre.uuid2connection)
          THEN /\ err = "none"
               /\ Len(trace) = 1
               /\ trace[1].k = "return"
               /\ trace[1].conns = <<pre.uuid2connection[lastOp.arg]>>
               /\ pre.uuid2connection[lastOp.arg] # None
               /\ pre.uuid2connection[lastOp.arg] \notin closed
          ELSE /\ err = "ValueError"
               /\ trace = <<>>

\* C17: recover() on a switch that is not failed is a no-op: no error, no call
\* of the connection factory, no new connection, and failed, the mapping and
\* the engine's connection list unchanged.
C17_RecoverWhenUpIsNoOp ==
  (lastOp.op = "recover" /\ ~pre.failed) =>
     /\ err = "none"
     /\ trace = <<>>
     /\ SwitchState = pre

\* recover() on a connected switch that is up.
C17_Witness ==
  /\ lastOp.op = "recover"
  /\ ~pre.failed
  /\ pre.controller_info # <<>>
  /\ pre.connections # <<>>
  /\ ~failed

\* C18: when the connection factory raises for a registered endpoint, the
\* error reaches the caller of connect() or recover(); inside recover() the
\* switch stays failed.
C18_FactoryErrorPropagates ==
  (lastOp.op \in {"connect", "recover"} /\ lastOp.arg # 0) =>
     /\ Len(trace) = lastOp.arg
     /\ trace[Len(trace)].k = "factory"
     /\ err = "IOError"
     /\ (lastOp.op = "recover" => failed)

\* A recover() whose factory raised for the second endpoint.
C18_Witness ==
  /\ lastOp.op = "recover"
  /\ pre.failed
  /\ lastOp.arg = 2
  /\ Len(trace) = 2
  /\ err = "IOError"
  /\ failed

\* C14: for all HostInterfaces A and B, duplicates in the IP lists allowed,
\* A == B holds exactly when they have the same name, the same hardware
\* address and the same set of IP addresses.
C14_EqIffSameSet ==
  compared =>
     (eqAB <=> /\ ifA.name = ifB.name
               /\ ifA.hw_addr = ifB.hw_addr
               /\ Range(ifA.ips) = Range(ifB.ips))

\* C15: reversing a Link twice gives a Link equal to the one constructed, and
\* building a reversed Link never fails.
C15_ReverseTwice ==
  /\ revs >= 1 => lerr = "none" /\ link # NoLink
  /\ (revs = 2 /\ lerr = "none") => Link_eq(link, orig)

\* A Link between different switches and port numbers, reversed twice.
C15_Witness ==
  /\ revs = 2
  /\ orig # NoLink
  /\ orig.start_software_switch # orig.end_software_switch
  /\ orig.start_port.port_no # orig.end_port.port_no
  /\ Link_eq(link, orig)

\* C16: Link(ssw, start number, esw, end number) succeeds exactly when the
\* start number is in ssw's port table and the end number is in esw's port
\* table, and it then holds the ports of those tables.
C16_PortsResolvedAgainstOwner ==
  (revs = 0 /\ largs # NoArgs /\ largs.sp.kind = "int" /\ largs.ep.kind = "int") =>
     /\ lerr = "none" <=> /\ largs.sp.port_no \in PortNumbers(largs.ssw)
                          /\ largs.ep.port_no \in PortNumbers(largs.esw)
     /\ lerr = "none" => /\ link.start_port = PortOf(largs.ssw, largs.sp.port_no)
                         /\ link.end_port = PortOf(largs.esw, largs.ep.port_no)

\* C20: for all HostInterfaces A and B, A == B implies B == A, and A == B
\* implies hash(A) = hash(B).
C20_EqSymmetricAndHashed ==
  (compared /\ eqAB) => (eqBA /\ hashA = hashB)

====
